---- MODULE Spec2Model ----
(***************************************************************************)
(* Model of new_fred's Sources and Tags classes (sources.py, tags.py).     *)
(*                                                                         *)
(* One Tags instance is modelled (Tags extends Sources, so it carries both *)
(* source_stack and tag_stack and all six public methods).  A call is      *)
(* split into the statements of the method body so that the order of the   *)
(* steps and the interleaving of two callers can be observed.              *)
(*                                                                         *)
(* Text: a Python str is a sequence of atoms.  The string literals of the  *)
(* code are one atom each; the characters of argument values are one atom  *)
(* each.  Concatenation of str is \o.                                      *)
(***************************************************************************)
EXTENDS Integers, Sequences, FiniteSets, TLC

VARIABLES
    realtime_start,   \* instance default of the realtime period (start)
    realtime_end,     \* instance default of the realtime period (end)
    source_stack,     \* Sources.source_stack: dict method name -> result
    tag_stack,        \* Tags.tag_stack: dict method name -> result
    pc,               \* per caller: position in the method body
    method,           \* per caller: the method being executed
    args,             \* per caller: the arguments of the call
    url,              \* per caller: local url_prefix / url
    fetched,          \* per caller: value returned by _fetch_data
    ret,              \* per caller: value returned to the caller
    exc,              \* per caller: exception raised to the caller
    printed,          \* per caller: messages printed during the call
    hist,             \* per caller: statements executed by the call
    completed,        \* history: method -> result fetched by its latest completed call
    previous,         \* history: method -> result fetched by the completed call before that
    before,           \* history, per caller: the two mappings as the call found them
    overlapped,       \* history: two calls have been in progress at once
    callers,          \* the callers that use the instance
    inputs,           \* which family of arguments the callers draw from
    budget            \* number of calls still to be made

vars == <<realtime_start, realtime_end, source_stack, tag_stack, pc, method,
          args, url, fetched, ret, exc, printed, hist, completed, previous,
          before, overlapped, callers, inputs, budget>>

----------------------------------------------------------------------------
(* Bounds *)

MaxCalls == 3
MaxConcCalls == 3

Threads == {1, 2}

----------------------------------------------------------------------------
(* Python values *)

None == [t |-> "none"]
PyInt(n) == [t |-> "int", i |-> n]
PyStr(s) == [t |-> "str", s |-> s]
PyList(l) == [t |-> "list", l |-> l]
PyTuple(l) == [t |-> "tuple", u |-> l]
\* an object whose __str__ does not return a str: str() raises TypeError
Unprintable == [t |-> "bad"]

Elems(x) == IF x.t = "list" THEN x.l ELSE x.u

Digit(d) ==
    CASE d = 0 -> "0" [] d = 1 -> "1" [] d = 2 -> "2" [] d = 3 -> "3"
      [] d = 4 -> "4" [] d = 5 -> "5" [] d = 6 -> "6" [] d = 7 -> "7"
      [] d = 8 -> "8" [] d = 9 -> "9"

RECURSIVE IntToStr(_)
IntToStr(n) ==
    IF n < 0 THEN <<"-">> \o IntToStr(0 - n)
    ELSE IF n < 10 THEN <<Digit(n)>>
    ELSE IntToStr(n \div 10) \o <<Digit(n % 10)>>

\* builtin str(v)
StrRaises(v) == v.t = "bad"

Str(v) ==
    CASE v.t = "str" -> v.s
      [] v.t = "int" -> IntToStr(v.i)
      [] v.t = "none" -> <<"None">>

\* builtin sep.join(x): x must be an iterable whose items are all str
JoinRaises(x) ==
    \/ x.t \notin {"list", "tuple", "str"}
    \/ /\ x.t \in {"list", "tuple"}
       /\ \E i \in 1..Len(Elems(x)) : Elems(x)[i].t # "str"

\* the items that iterating x yields, each as text
Items(x) ==
    IF x.t = "str" THEN [i \in 1..Len(x.s) |-> <<x.s[i]>>]
    ELSE [i \in 1..Len(Elems(x)) |-> Elems(x)[i].s]

RECURSIVE JoinItems(_, _)
JoinItems(sep, items) ==
    IF items = <<>> THEN <<>>
    ELSE IF Len(items) = 1 THEN items[1]
    ELSE items[1] \o sep \o JoinItems(sep, Tail(items))

Join(sep, x) == JoinItems(sep, Items(x))

----------------------------------------------------------------------------
(* dict *)

EmptyDict == [k \in {} |-> "nil"]

\* d.setdefault(k, v) in the place of d[k] = v: an entry is never overwritten
DictSetDefault(d, k, v) ==
    [x \in DOMAIN d \cup {k} |-> IF x \in DOMAIN d THEN d[x] ELSE v]

\* d[k] = v
DictSet(d, k, v) == [x \in DOMAIN d \cup {k} |-> IF x = k THEN v ELSE d[x]]

----------------------------------------------------------------------------
(* The public methods and their parameters *)

SourcesMethods == {"get_all_sources", "get_a_source", "get_releases_for_a_source"}
TagsMethods == {"get_tags", "get_related_tags_for_a_tag", "get_series_matching_tags"}
Methods == SourcesMethods \cup TagsMethods

\* the string literal url_prefix starts from
url_prefix(m) ==
    CASE m = "get_all_sources" -> "sources?"
      [] m = "get_a_source" -> "source?source_id="
      [] m = "get_releases_for_a_source" -> "source/releases?source_id="
      [] m = "get_tags" -> "tags?"
      [] m = "get_related_tags_for_a_tag" -> "related_tags?tag_names="
      [] m = "get_series_matching_tags" -> "tags/series?tag_names="

\* the required parameter of the signature, if any
RequiredParams(m) ==
    CASE m \in {"get_a_source", "get_releases_for_a_source"} -> <<"source_id">>
      [] m \in {"get_related_tags_for_a_tag", "get_series_matching_tags"} -> <<"tag_names">>
      [] OTHER -> <<>>

\* the parameters of the signature that default to None
OptionalParams(m) ==
    CASE m = "get_all_sources" ->
            <<"realtime_start", "realtime_end", "limit", "offset",
              "order_by", "sort_order">>
      [] m = "get_a_source" -> <<"realtime_start", "realtime_end">>
      [] m = "get_releases_for_a_source" ->
            <<"realtime_start", "realtime_end", "limit", "offset",
              "order_by", "sort_order">>
      [] m = "get_tags" ->
            <<"realtime_start", "realtime_end", "tag_names", "tag_group_id",
              "search_text", "limit", "offset", "order_by", "sort_order">>
      [] m = "get_related_tags_for_a_tag" ->
            <<"realtime_start", "realtime_end", "exclude_tag_names",
              "tag_group_id", "search_text", "limit", "offset", "order_by",
              "sort_order">>
      [] m = "get_series_matching_tags" ->
            <<"exclude_tag_names", "realtime_start", "realtime_end", "limit",
              "offset", "order_by", "sort_order">>

\* the key a parameter has in the optional_args dict literals
ArgKey(p) ==
    CASE p = "realtime_start" -> "&realtime_start="
      [] p = "realtime_end" -> "&realtime_end="
      [] p = "limit" -> "&limit="
      [] p = "offset" -> "&offset="
      [] p = "order_by" -> "&order_by="
      [] p = "sort_order" -> "&sort_order="
      [] p = "tag_names" -> "&tag_names="
      [] p = "exclude_tag_names" -> "&exclude_tag_names="
      [] p = "tag_group_id" -> "&tag_group_id="
      [] p = "search_text" -> "&search_text="

\* the optional_args dict a method body builds, in insertion order;
\* get_series_matching_tags returns before it builds one
optional_args(m, a) ==
    IF m = "get_series_matching_tags" THEN <<>>
    ELSE [i \in 1..Len(OptionalParams(m)) |->
             <<ArgKey(OptionalParams(m)[i]), a[OptionalParams(m)[i]]>>]

----------------------------------------------------------------------------
(* The helpers inherited from the base class *)

\* _add_optional_params: append key and value of every entry that is not None
RECURSIVE add_optional_params(_, _)
add_optional_params(og_url_string, optional_params) ==
    IF optional_params = <<>> THEN og_url_string
    ELSE LET k == optional_params[1][1]
             v == optional_params[1][2]
             new_url_string ==
                 IF v = None THEN og_url_string
                 ELSE IF v.t \in {"list", "tuple"}
                      THEN og_url_string \o <<k>> \o Join(<<";">>, v)
                      ELSE og_url_string \o <<k>> \o Str(v)
         IN add_optional_params(new_url_string, Tail(optional_params))

\* _get_realtime_date: the realtime period, an argument left None replaced
\* by the instance default
get_realtime_date(rt_start, rt_end, default_start, default_end) ==
    <<"&realtime_start=">>
        \o (IF rt_start = None THEN default_start ELSE Str(rt_start))
        \o <<"&realtime_end=">>
        \o (IF rt_end = None THEN default_end ELSE Str(rt_end))

\* the JSON results the service may answer with
Results == {"json_a", "json_b"}

\* _fetch_data(url): one request, which yields a parsed JSON result or raises
\* what the HTTP layer or the JSON parser raises
fetch_data(u) ==
    {[raised |-> FALSE, json |-> r] : r \in Results}
        \cup {[raised |-> TRUE, json |-> "nil"]}

\* the defaults of a freshly constructed instance
EarliestRealtime == <<"1776-07-04">>
LatestRealtime == <<"9999-12-31">>

----------------------------------------------------------------------------
(* The arguments callers pass *)

Tag(name) == PyStr(<<name>>)

\* what is passed for a required tag_names: lists and a tuple of tags, and
\* the arguments that are not a list or tuple of str
RequiredTagNames(family) ==
    IF family = "bare" THEN {None, PyList(<<Tag("usa"), Tag("gnp")>>)}
    ELSE IF family = "light"
    THEN {None, PyStr(<<"g", "d", "p">>), PyList(<<Tag("usa"), Tag("gnp")>>)}
    ELSE {None, PyInt(3), PyStr(<<"g", "d", "p">>),
          PyList(<<>>), PyList(<<Tag("usa")>>),
          PyList(<<Tag("usa"), Tag("gnp")>>), PyList(<<Tag("gnp"), Tag("usa")>>),
          PyTuple(<<Tag("usa"), Tag("gnp")>>),
          PyList(<<PyInt(1), Tag("usa")>>)}

\* the values a parameter is set to when it is not left None
SetValues(p) ==
    CASE p = "realtime_start" -> {PyStr(<<"2001-01-01">>)}
      [] p = "realtime_end" -> {PyStr(<<"2020-12-31">>)}
      [] p = "limit" -> {PyInt(25)}
      [] p = "offset" -> {PyInt(0)}
      [] p = "order_by" -> {PyStr(<<"name">>)}
      [] p = "sort_order" -> {PyStr(<<"desc">>)}
      [] p = "tag_group_id" -> {PyStr(<<"geo">>)}
      [] p = "search_text" -> {PyStr(<<"gdp">>)}
      [] p \in {"tag_names", "exclude_tag_names"} ->
            {PyList(<<Tag("usa")>>), PyList(<<Tag("gnp"), Tag("usa")>>)}

RequiredValues(p, family) ==
    IF p = "source_id" THEN {PyInt(18), Unprintable}
    ELSE RequiredTagNames(family)

OptionalValues(p, setting) ==
    CASE setting = "none" -> {None}
      [] setting = "set" -> SetValues(p)
      [] setting = "any" -> {None} \cup SetValues(p)

RECURSIVE Assign(_, _, _)
Assign(ps, m, setting) ==
    IF ps = <<>> THEN {EmptyDict}
    ELSE {(ps[1] :> v) @@ a :
            v \in OptionalValues(ps[1], setting),
            a \in Assign(Tail(ps), m, setting)}

\* the argument lists of method m in a family of inputs:
\*   full  - every combination of set and unset optional arguments
\*   light - the optional arguments all unset or all set
\*   bare  - the optional arguments all unset
ArgLists(m, family) ==
    LET opt == IF family = "full" THEN Assign(OptionalParams(m), m, "any")
               ELSE IF family = "light"
               THEN Assign(OptionalParams(m), m, "none")
                        \cup Assign(OptionalParams(m), m, "set")
               ELSE Assign(OptionalParams(m), m, "none")
    IN IF RequiredParams(m) = <<>> THEN opt
       ELSE {(RequiredParams(m)[1] :> v) @@ a :
                v \in RequiredValues(RequiredParams(m)[1], family), a \in opt}

----------------------------------------------------------------------------
(* Construction *)

Idle == [t \in Threads |-> "idle"]

\* Sources.__init__ and Tags.__init__: both mappings start empty
Constructed ==
    /\ source_stack = EmptyDict
    /\ tag_stack = EmptyDict
    /\ pc = Idle
    /\ method = [t \in Threads |-> "none"]
    /\ args = [t \in Threads |-> EmptyDict]
    /\ url = [t \in Threads |-> <<>>]
    /\ fetched = [t \in Threads |-> "nil"]
    /\ ret = [t \in Threads |-> "nil"]
    /\ exc = [t \in Threads |-> "none"]
    /\ printed = [t \in Threads |-> <<>>]
    /\ hist = [t \in Threads |-> <<>>]
    /\ completed = EmptyDict
    /\ previous = EmptyDict
    /\ before = [t \in Threads |-> <<EmptyDict, EmptyDict>>]
    /\ overlapped = FALSE

\* one caller, a sequence of calls
Init ==
    /\ Constructed
    /\ realtime_start = EarliestRealtime
    /\ realtime_end = LatestRealtime
    /\ callers = {1}
    /\ inputs = "light"
    /\ budget = MaxCalls

\* one caller, one call, every combination of arguments; the user may have
\* set the instance's realtime defaults
InitUrl ==
    /\ Constructed
    /\ \E user \in BOOLEAN :
          /\ realtime_start = IF user THEN <<"2010-01-01">> ELSE EarliestRealtime
          /\ realtime_end = IF user THEN <<"2015-06-30">> ELSE LatestRealtime
    /\ callers = {1}
    /\ inputs = "full"
    /\ budget = 1

\* two callers share the instance
InitConc ==
    /\ Constructed
    /\ realtime_start = EarliestRealtime
    /\ realtime_end = LatestRealtime
    /\ callers = Threads
    /\ inputs = "bare"
    /\ budget = MaxConcCalls

----------------------------------------------------------------------------
(* The statements of a call *)

InProgress == {"start", "prefix", "url", "fetched", "stored"}

instance == <<realtime_start, realtime_end, callers, inputs>>

\* a caller invokes method m with argument list a
Invoke(t) ==
    /\ t \in callers
    /\ pc[t] \notin InProgress
    /\ budget > 0
    /\ \E m \in Methods : \E a \in ArgLists(m, inputs) :
          /\ method' = [method EXCEPT ![t] = m]
          /\ args' = [args EXCEPT ![t] = a]
    /\ pc' = [pc EXCEPT ![t] = "start"]
    /\ url' = [url EXCEPT ![t] = <<>>]
    /\ fetched' = [fetched EXCEPT ![t] = "nil"]
    /\ ret' = [ret EXCEPT ![t] = "nil"]
    /\ exc' = [exc EXCEPT ![t] = "none"]
    /\ printed' = [printed EXCEPT ![t] = <<>>]
    /\ hist' = [hist EXCEPT ![t] = <<>>]
    /\ overlapped' = (overlapped \/ \E u \in Threads \ {t} : pc[u] \in InProgress)
    /\ before' = [before EXCEPT ![t] = <<source_stack, tag_stack>>]
    /\ budget' = budget - 1
    /\ UNCHANGED <<instance, source_stack, tag_stack, completed, previous>>

\* url_prefix = "..." and, where the method has a required parameter, the
\* try/except that appends it
BuildUrlPrefix(t) ==
    /\ pc[t] = "start"
    /\ LET m == method[t]
           a == args[t]
           lit == <<url_prefix(m)>>
       IN CASE m \in {"get_all_sources", "get_tags"} ->
                 /\ url' = [url EXCEPT ![t] = lit]
                 /\ pc' = [pc EXCEPT ![t] = "prefix"]
                 /\ UNCHANGED <<printed, exc>>
            [] m \in {"get_a_source", "get_releases_for_a_source"} ->
                 IF ~StrRaises(a["source_id"])
                 THEN /\ url' = [url EXCEPT ![t] = lit \o Str(a["source_id"])]
                      /\ pc' = [pc EXCEPT ![t] = "prefix"]
                      /\ UNCHANGED <<printed, exc>>
                 \* except TypeError: the message is formatted with %s, which
                 \* applies str() to source_id once more
                 ELSE IF StrRaises(a["source_id"])
                 THEN /\ exc' = [exc EXCEPT ![t] = "TypeError"]
                      /\ pc' = [pc EXCEPT ![t] = "raised"]
                      /\ url' = [url EXCEPT ![t] = lit]
                      /\ UNCHANGED printed
                 ELSE /\ printed' = [printed EXCEPT ![t] =
                              Append(@, <<"Unable to cast source_id ">>
                                          \o Str(a["source_id"]) \o <<" to str">>)]
                      /\ url' = [url EXCEPT ![t] = lit]
                      /\ pc' = [pc EXCEPT ![t] = "prefix"]
                      /\ UNCHANGED exc
            [] m \in {"get_related_tags_for_a_tag", "get_series_matching_tags"} ->
                 IF ~JoinRaises(a["tag_names"])
                 THEN /\ url' = [url EXCEPT ![t] = lit \o Join(<<";">>, a["tag_names"])]
                      /\ pc' = [pc EXCEPT ![t] = "prefix"]
                      /\ UNCHANGED <<printed, exc>>
                 ELSE /\ printed' = [printed EXCEPT ![t] =
                              Append(@, <<"tag_names must be list or tuple">>)]
                      /\ url' = [url EXCEPT ![t] = lit]
                      /\ pc' = [pc EXCEPT ![t] = "prefix"]
                      /\ UNCHANGED exc
    /\ hist' = [hist EXCEPT ![t] = Append(@, "prefix")]
    /\ UNCHANGED <<instance, source_stack, tag_stack, method, args, fetched,
                   ret, completed, previous, before, overlapped, budget>>

\* url = self._add_optional_params(url_prefix, optional_args)
AddOptionalParams(t) ==
    /\ pc[t] = "prefix"
    /\ method[t] # "get_series_matching_tags"
    /\ url' = [url EXCEPT ![t] =
                  add_optional_params(@, optional_args(method[t], args[t]))]
    /\ pc' = [pc EXCEPT ![t] = "url"]
    /\ hist' = [hist EXCEPT ![t] = Append(@, "optional")]
    /\ UNCHANGED <<instance, source_stack, tag_stack, method, args, fetched,
                   ret, exc, printed, completed, previous, before, overlapped, budget>>

\* get_series_matching_tags: url_prefix += self._get_realtime_date(...)
GetRealtimeDate(t) ==
    /\ pc[t] = "prefix"
    /\ method[t] = "get_series_matching_tags"
    /\ url' = [url EXCEPT ![t] =
                  @ \o get_realtime_date(args[t]["realtime_start"],
                                         args[t]["realtime_end"],
                                         realtime_start, realtime_end)]
    /\ pc' = [pc EXCEPT ![t] = "url"]
    /\ hist' = [hist EXCEPT ![t] = Append(@, "realtime")]
    /\ UNCHANGED <<instance, source_stack, tag_stack, method, args, fetched,
                   ret, exc, printed, completed, previous, before, overlapped, budget>>

\* a fetch that catches the error, stores an empty result and re-raises
FetchDataStoresOnError(t) ==
    /\ pc[t] = "url"
    /\ \E o \in fetch_data(url[t]) :
          IF o.raised
          THEN /\ exc' = [exc EXCEPT ![t] = "FetchError"]
               /\ pc' = [pc EXCEPT ![t] = "raised"]
               /\ IF method[t] \in SourcesMethods
                  THEN /\ source_stack' = DictSet(source_stack, method[t], "nil")
                       /\ UNCHANGED tag_stack
                  ELSE /\ tag_stack' = DictSet(tag_stack, method[t], "nil")
                       /\ UNCHANGED source_stack
               /\ UNCHANGED fetched
          ELSE /\ fetched' = [fetched EXCEPT ![t] = o.json]
               /\ pc' = [pc EXCEPT ![t] = "fetched"]
               /\ UNCHANGED <<exc, source_stack, tag_stack>>
    /\ hist' = [hist EXCEPT ![t] = Append(@, "fetch")]
    /\ UNCHANGED <<instance, method, args, url, ret, printed, completed,
                   previous, before, overlapped, budget>>

\* the right-hand side self._fetch_data(url) of the assignment: when it
\* raises, the assignment does not happen and the error leaves the method
FetchData(t) ==
    /\ pc[t] = "url"
    /\ \E o \in fetch_data(url[t]) :
          IF o.raised
          THEN /\ exc' = [exc EXCEPT ![t] = "FetchError"]
               /\ pc' = [pc EXCEPT ![t] = "raised"]
               /\ UNCHANGED fetched
          ELSE /\ fetched' = [fetched EXCEPT ![t] = o.json]
               /\ pc' = [pc EXCEPT ![t] = "fetched"]
               /\ UNCHANGED exc
    /\ hist' = [hist EXCEPT ![t] = Append(@, "fetch")]
    /\ UNCHANGED <<instance, source_stack, tag_stack, method, args, url,
                   ret, printed, completed, previous, before, overlapped, budget>>

\* a store that takes the wrong local: the value to return, not yet set
StoreResultStale(t) ==
    /\ pc[t] = "fetched"
    /\ IF method[t] \in SourcesMethods
       THEN /\ source_stack' = DictSet(source_stack, method[t], ret[t])
            /\ UNCHANGED tag_stack
       ELSE /\ tag_stack' = DictSet(tag_stack, method[t], ret[t])
            /\ UNCHANGED source_stack
    /\ pc' = [pc EXCEPT ![t] = "stored"]
    /\ hist' = [hist EXCEPT ![t] = Append(@, "store")]
    /\ UNCHANGED <<instance, method, args, url, fetched, ret, exc, printed,
                   completed, previous, before, overlapped, budget>>

\* a store that writes every result to tag_stack
StoreResultOneMapping(t) ==
    /\ pc[t] = "fetched"
    /\ tag_stack' = DictSet(tag_stack, method[t], fetched[t])
    /\ UNCHANGED source_stack
    /\ pc' = [pc EXCEPT ![t] = "stored"]
    /\ hist' = [hist EXCEPT ![t] = Append(@, "store")]
    /\ UNCHANGED <<instance, method, args, url, fetched, ret, exc, printed,
                   completed, previous, before, overlapped, budget>>

\* self.<stack>["<method>"] = <the fetched result>
StoreResult(t) ==
    /\ pc[t] = "fetched"
    /\ IF method[t] \in SourcesMethods
       THEN /\ source_stack' = DictSet(source_stack, method[t], fetched[t])
            /\ UNCHANGED tag_stack
       ELSE /\ tag_stack' = DictSet(tag_stack, method[t], fetched[t])
            /\ UNCHANGED source_stack
    /\ pc' = [pc EXCEPT ![t] = "stored"]
    /\ hist' = [hist EXCEPT ![t] = Append(@, "store")]
    /\ UNCHANGED <<instance, method, args, url, fetched, ret, exc, printed,
                   completed, previous, before, overlapped, budget>>

\* return self.<stack>["<method>"]
ReturnResult(t) ==
    /\ pc[t] = "stored"
    /\ ret' = [ret EXCEPT ![t] =
                  IF method[t] \in SourcesMethods THEN source_stack[method[t]]
                  ELSE tag_stack[method[t]]]
    /\ pc' = [pc EXCEPT ![t] = "returned"]
    /\ hist' = [hist EXCEPT ![t] = Append(@, "return")]
    /\ completed' = [m \in DOMAIN completed \cup {method[t]} |->
                         IF m = method[t] THEN fetched[t] ELSE completed[m]]
    /\ previous' = IF method[t] \in DOMAIN completed
                    THEN [m \in DOMAIN previous \cup {method[t]} |->
                             IF m = method[t] THEN completed[m] ELSE previous[m]]
                    ELSE previous
    /\ UNCHANGED <<instance, source_stack, tag_stack, method, args, url,
                   fetched, exc, printed, before, overlapped, budget>>

Next ==
    \E t \in Threads :
        \/ Invoke(t)
        \/ BuildUrlPrefix(t)
        \/ AddOptionalParams(t)
        \/ GetRealtimeDate(t)
        \/ FetchData(t)
        \/ StoreResult(t)
        \/ ReturnResult(t)

Spec == Init /\ [][Next]_vars
SpecUrl == InitUrl /\ [][Next]_vars
SpecConc == InitConc /\ [][Next]_vars

----------------------------------------------------------------------------
(* Vocabulary of the properties *)

\* the positions of a call at which its URL is complete
UrlBuilt == {"url", "fetched", "stored", "returned"}

Quiescent == \A t \in Threads : pc[t] \notin InProgress

\* text u contains the segment seg
Contains(u, seg) ==
    \E i \in 0..(Len(u) - Len(seg)) : SubSeq(u, i + 1, i + Len(seg)) = seg

HasAtom(u, atom) == \E i \in 1..Len(u) : u[i] = atom

IsListOfStr(v) ==
    /\ v.t \in {"list", "tuple"}
    /\ \A i \in 1..Len(Elems(v)) : Elems(v)[i].t = "str"

\* the elements of a list of tags, in order, with ";" between neighbours
Separated(v) ==
    [i \in 1..(IF Len(Elems(v)) = 0 THEN 0 ELSE 2 * Len(Elems(v)) - 1) |->
        IF i % 2 = 1 THEN Elems(v)[(i + 1) \div 2].s[1] ELSE ";"]

\* the text an argument value has in a URL
ValueText(v) == IF v.t \in {"list", "tuple"} THEN Separated(v) ELSE Str(v)

OwnStack(m) == IF m \in SourcesMethods THEN source_stack ELSE tag_stack

Count(h, step) == Cardinality({i \in 1..Len(h) : h[i] = step})

TagNamesMethods == {"get_related_tags_for_a_tag", "get_series_matching_tags"}
SourceIdMethods == {"get_a_source", "get_releases_for_a_source"}

----------------------------------------------------------------------------
(* C1 *)

\* C1: in every method, the URL handed to the fetch has no segment for an
\* optional parameter left None and has the segment '&<name>=<value>' for
\* every optional parameter that is set.
C1_OptionalParamsInUrl ==
    \A t \in callers :
        pc[t] \in UrlBuilt =>
            \A i \in 1..Len(OptionalParams(method[t])) :
                LET p == OptionalParams(method[t])[i]
                    v == args[t][p]
                IN IF v = None THEN ~HasAtom(url[t], ArgKey(p))
                   ELSE Contains(url[t], <<ArgKey(p)>> \o ValueText(v))

----------------------------------------------------------------------------
(* C2 *)

\* C2: every list-valued parameter (the required tag_names, the optional
\* tag_names and exclude_tag_names) is in the URL as its elements in the
\* given order joined by ';'.
C2_ListsJoinedBySemicolon ==
    \A t \in callers :
        pc[t] \in UrlBuilt =>
            /\ method[t] \in TagNamesMethods /\ IsListOfStr(args[t]["tag_names"]) =>
                  SubSeq(url[t], 1, 1 + Len(Separated(args[t]["tag_names"])))
                      = <<url_prefix(method[t])>> \o Separated(args[t]["tag_names"])
            /\ \A i \in 1..Len(OptionalParams(method[t])) :
                  LET p == OptionalParams(method[t])[i]
                      v == args[t][p]
                  IN (p \in {"tag_names", "exclude_tag_names"} /\ IsListOfStr(v)) =>
                        Contains(url[t], <<ArgKey(p)>> \o Separated(v))

----------------------------------------------------------------------------
(* C3 *)

\* C3: after any sequence of sequential calls, the mapping holds under every
\* method name that completed a call exactly the result fetched by its most
\* recent completed call, and has no entry for a method that completed none.
C3_LastWriteWins ==
    Quiescent =>
        \A m \in Methods :
            IF m \in DOMAIN completed
            THEN m \in DOMAIN OwnStack(m) /\ OwnStack(m)[m] = completed[m]
            ELSE m \notin DOMAIN OwnStack(m)

\* a method has completed two calls with different results, and another
\* method has not been called
C3_Overwritten ==
    /\ Quiescent
    /\ \E m \in DOMAIN previous :
          /\ previous[m] # completed[m]
          /\ OwnStack(m)[m] = completed[m]
    /\ \E m \in Methods : m \notin DOMAIN completed

----------------------------------------------------------------------------
(* C4 *)

\* C4: every call that returns has executed, in this order and once each:
\* build the URL prefix, append the optional parameters, fetch, store the
\* result under the method's name, return the stored result.
C4_SameOrderedSteps ==
    \A t \in callers :
        pc[t] = "returned" =>
            hist[t] = <<"prefix", "optional", "fetch", "store", "return">>

----------------------------------------------------------------------------
(* C5 *)

RequiredNotCoercible(t) ==
    \/ method[t] \in SourceIdMethods /\ StrRaises(args[t]["source_id"])
    \/ method[t] \in TagNamesMethods /\ JoinRaises(args[t]["tag_names"])

\* C5: when the required parameter cannot be turned into a string, no error
\* reaches the caller: a message is printed, the prefix is left without the
\* value, and the call goes on to fetch, store and return.
C5_CoercionErrorCaught ==
    \A t \in callers :
        (RequiredNotCoercible(t) /\ pc[t] # "start" /\ pc[t] # "idle") =>
            /\ exc[t] # "TypeError"
            /\ Len(printed[t]) = 1
            /\ url[t][1] = url_prefix(method[t])
            /\ pc[t] = "prefix" => url[t] = <<url_prefix(method[t])>>

----------------------------------------------------------------------------
(* C6 *)

\* C6: in every method, a realtime_start (realtime_end) left None is
\* requested as the instance's default realtime_start (realtime_end), which
\* is "1776-07-04" ("9999-12-31") unless the user has set one.
C6_RealtimeDefaultsRequested ==
    \A t \in callers :
        pc[t] \in UrlBuilt =>
            /\ args[t]["realtime_start"] = None =>
                  Contains(url[t], <<"&realtime_start=">> \o realtime_start)
            /\ args[t]["realtime_end"] = None =>
                  Contains(url[t], <<"&realtime_end=">> \o realtime_end)

----------------------------------------------------------------------------
(* C7 *)

\* C7: as long as no two calls have been in progress at once, every call
\* returns the result of its own fetch; with two interleaved calls of one
\* method a call can return the result the other call fetched.
C7_SequentialReturnsOwnFetch ==
    ~overlapped =>
        \A t \in callers : pc[t] = "returned" => ret[t] = fetched[t]

\* a call has returned the result fetched by the other, interleaved call
C7_ReturnsOtherResult ==
    \E t \in callers : \E u \in callers \ {t} :
        /\ overlapped
        /\ pc[t] = "returned"
        /\ method[u] = method[t]
        /\ pc[u] \in {"stored", "returned"}
        /\ ret[t] # fetched[t]
        /\ ret[t] = fetched[u]

----------------------------------------------------------------------------
(* C8 *)

\* C8: in the two methods with a required tag_names, the message is printed
\* and nothing is appended after 'tag_names=' exactly when the argument is
\* not a list or tuple of strings.
C8_MessageIffNotListOfStr ==
    \A t \in callers :
        (method[t] \in TagNamesMethods /\ pc[t] = "prefix") =>
            ((/\ printed[t] = <<(<<"tag_names must be list or tuple">>)>>
              /\ url[t] = <<url_prefix(method[t])>>)
                <=> ~IsListOfStr(args[t]["tag_names"]))

----------------------------------------------------------------------------
(* C9 *)

\* C9: when the fetch of a call raises, the error reaches the caller after
\* exactly one fetch, and both mappings are as they were before the call.
C9_FetchErrorLeavesMappings ==
    \A t \in callers :
        (pc[t] = "raised" /\ Count(hist[t], "fetch") > 0) =>
            /\ exc[t] = "FetchError"
            /\ Count(hist[t], "fetch") = 1
            /\ ret[t] = "nil"
            /\ source_stack = before[t][1]
            /\ tag_stack = before[t][2]

\* a fetch has raised in a method that had a result from an earlier call,
\* and in a method that had none
C9_FetchRaised ==
    /\ \E t \in callers :
          /\ pc[t] = "raised" /\ exc[t] = "FetchError"
          /\ method[t] \in DOMAIN OwnStack(method[t])
          /\ \E m \in Methods : m \notin DOMAIN OwnStack(m)

----------------------------------------------------------------------------
(* C10 *)

\* C10: a completed call of method m has changed only the entry m of its
\* own mapping, and the keys of source_stack are among the three Sources
\* methods, the keys of tag_stack among the three Tags methods.
C10_OnlyOwnEntryWritten ==
    /\ DOMAIN source_stack \subseteq SourcesMethods
    /\ DOMAIN tag_stack \subseteq TagsMethods
    /\ \A t \in callers :
          pc[t] = "returned" =>
              LET m == method[t]
                  own == IF m \in SourcesMethods THEN 1 ELSE 2
                  now == <<source_stack, tag_stack>>
              IN /\ now[3 - own] = before[t][3 - own]
                 /\ DOMAIN now[own] = DOMAIN before[t][own] \cup {m}
                 /\ \A k \in DOMAIN before[t][own] \ {m} :
                       now[own][k] = before[t][own][k]
                 /\ now[own][m] = fetched[t]

\* a call has returned while both mappings held entries of other methods
C10_OtherEntriesKept ==
    \E t \in callers :
        /\ pc[t] = "returned"
        /\ DOMAIN before[t][1] \ {method[t]} # {}
        /\ DOMAIN before[t][2] \ {method[t]} # {}

====
